---- MODULE Spec2Model ----
(***************************************************************************)
(* Model of src/src/index.ts: the keyboard firmware loader.  One logical   *)
(* thread of control (main and the async functions it awaits) runs against *)
(* an environment that owns the bootloader volume /Volumes/NICENANO.       *)
(* pc is the position of that thread; every await of the source is a step. *)
(***************************************************************************)
EXTENDS Integers, Sequences, FiniteSets, TLC

VARIABLES
    pc,            \* position of the thread of control in index.ts
    exitCode,      \* the process exit status 0 / 1, or -1 while the process runs
    dir,           \* DOWNLOADS_FOLDER: sequence of [name, mtime] in readdir order
    dirReadable,   \* whether fs.readdir(DOWNLOADS_FOLDER) succeeds
    statPending,   \* number of fs.stat calls of getZipFiles in flight
    zipFiles,      \* the candidates of getZipFiles(), then its result
    zipFile,       \* the name selected at the first prompt, or NoFile
    scratch,       \* tempDir of extractFirmwareFiles: "none" | "exists" | "removed"
    extracted,     \* files in tempDir, [name, bytes], in readdir order
    firmware,      \* [left, right]: the paths of the firmware files found, or NoFile
    side,          \* role of the pass in progress: "none" | "left" | "right"
    vol,           \* state of NICENANO_VOLUME, owned by the environment
    volStable,     \* history: the volume did not change during the current isVolumeReady call
    checksPassed,  \* history: number of checks of the current isVolumeReady call that passed
    readyResult,   \* value returned by the last isVolumeReady call
    polls,         \* history: isVolumeReady calls made by the current wait (saturating)
    falses,        \* history: of these, how many returned false (saturating)
    trues,         \* history: of these, how many returned true
    settleMs,      \* history: settle delay slept by the current wait
    pollMs,        \* history: the delay slept before the check in progress (0 for the first)
    retries,       \* the local counter of copyFirmwareToKeyboard
    attempts,      \* history: [left, right] attempts started by each copy call
    accessOk,      \* history: outcome of line 202 in the attempt in progress
    lastError,     \* the error caught by the last catch entered (lines 74, 105, 214), or NoError
    raised,        \* the error that reached main's catch: [kind, attempt] or NoError
    copyResult,    \* history: [left, right] "none" | "success" | "exhausted"
    mount,         \* files of NICENANO_VOLUME: a function from file names to contents
    lastDelay,     \* history: the last animateProgressBar call of copyFirmwareToKeyboard
    log,           \* history: the phases entered, in order
    deleteAnswer   \* answer to the second prompt: "none" | "yes" | "no" | "rejected"

vars == <<pc, exitCode, dir, dirReadable, statPending, zipFiles, zipFile, scratch, extracted,
          firmware, side, vol, volStable, checksPassed, readyResult, polls, falses,
          trues, settleMs, pollMs, retries, attempts, accessOk, lastError,
          raised, copyResult, mount, lastDelay, log, deleteAnswer>>

(***************************************************************************)
(* Bounds of the model                                                     *)
(***************************************************************************)
\* the polling counters of a wait saturate here; the loop itself is unbounded
MaxPolls == 3
\* the listings of the downloads folder that getZipFiles is checked on
MaxFiles == 3
MaxMtime == 2

(***************************************************************************)
(* Program constants                                                       *)
(***************************************************************************)
maxRetries == 5
retryDelay == 1000
SettleDelay == 1500
PollInterval == 1000
PrepareMs == 500
PrepareSteps == 10
RestartMs == 1000
RestartSteps == 20
BackoffSteps == 20

NoFile == << >>
NoError == [kind |-> "none", attempt |-> 0]
Sides == {"left", "right"}

(***************************************************************************)
(* File names are sequences of characters, so that endsWith and the        *)
(* firmware patterns are computed on the text of the name.                 *)
(***************************************************************************)
Upper == <<"A","B","C","D","E","F","G","H","I","J","K","L","M",
           "N","O","P","Q","R","S","T","U","V","W","X","Y","Z">>
Lower == <<"a","b","c","d","e","f","g","h","i","j","k","l","m",
           "n","o","p","q","r","s","t","u","v","w","x","y","z">>

ToLowerChar(c) ==
    IF \E i \in 1..26 : Upper[i] = c
    THEN Lower[CHOOSE i \in 1..26 : Upper[i] = c]
    ELSE c

ToLower(s) == [i \in 1..Len(s) |-> ToLowerChar(s[i])]

\* String.prototype.endsWith
EndsWith(s, suffix) ==
    /\ Len(s) >= Len(suffix)
    /\ SubSeq(s, Len(s) - Len(suffix) + 1, Len(s)) = suffix

\* whether prefix occurs in s at position i
OccursAt(s, prefix, i) ==
    /\ i >= 1
    /\ i + Len(prefix) - 1 <= Len(s)
    /\ SubSeq(s, i, i + Len(prefix) - 1) = prefix

DotZip == <<".","z","i","p">>
DotUf2 == <<".","u","f","2">>
SofleLeft == <<"s","o","f","l","e","_","l","e","f","t">>
SofleRight == <<"s","o","f","l","e","_","r","i","g","h","t">>

\* /<stem>.*\.uf2$/i.test(file): the stem occurs somewhere, and the name ends
\* in .uf2 with the extension starting after the stem
MatchesPattern(file, stem) ==
    LET f == ToLower(file)
    IN  /\ EndsWith(f, DotUf2)
        /\ \E i \in 1..Len(f) :
              /\ OccursAt(f, stem, i)
              /\ i + Len(stem) <= Len(f) - Len(DotUf2) + 1

LEFT_FIRMWARE_PATTERN(file) == MatchesPattern(file, SofleLeft)
RIGHT_FIRMWARE_PATTERN(file) == MatchesPattern(file, SofleRight)

\* Array.prototype.find: the first element satisfying the pattern, or NoFile
RECURSIVE FindFirst(_, _)
FindFirst(files, isLeft) ==
    IF files = << >> THEN NoFile
    ELSE IF (IF isLeft THEN LEFT_FIRMWARE_PATTERN(Head(files))
                       ELSE RIGHT_FIRMWARE_PATTERN(Head(files)))
         THEN Head(files)
         ELSE FindFirst(Tail(files), isLeft)

(***************************************************************************)
(* getZipFiles: filter by extension, then a stable sort by mtime,          *)
(* newest first.                                                           *)
(***************************************************************************)
RECURSIVE FilterZip(_)
FilterZip(files) ==
    IF files = << >> THEN << >>
    ELSE IF EndsWith(Head(files).name, DotZip)
         THEN <<Head(files)>> \o FilterZip(Tail(files))
         ELSE FilterZip(Tail(files))

\* mutant: the comparator is a.mtime - b.mtime
RECURSIVE InsertByMtime_Ascending(_, _)
InsertByMtime_Ascending(sorted, e) ==
    IF sorted = << >> THEN <<e>>
    ELSE IF Head(sorted).mtime <= e.mtime
         THEN <<Head(sorted)>> \o InsertByMtime_Ascending(Tail(sorted), e)
         ELSE <<e>> \o sorted

\* insert e after every element whose mtime is >= e.mtime (stable, descending)
RECURSIVE InsertByMtime(_, _)
InsertByMtime(sorted, e) ==
    IF sorted = << >> THEN <<e>>
    ELSE IF Head(sorted).mtime >= e.mtime
         THEN <<Head(sorted)>> \o InsertByMtime(Tail(sorted), e)
         ELSE <<e>> \o sorted

RECURSIVE SortNewestFirst(_)
SortNewestFirst(files) ==
    IF files = << >> THEN << >>
    ELSE InsertByMtime(SortNewestFirst(SubSeq(files, 1, Len(files) - 1)),
                       files[Len(files)])

(***************************************************************************)
(* animateProgressBar: the total time slept by the loop of lines 167-170.  *)
(***************************************************************************)
RECURSIVE AnimateLoop(_, _, _)
AnimateLoop(i, stepSize, stepTimeMs) ==
    IF i <= 100
    THEN stepTimeMs + AnimateLoop(i + stepSize, stepSize, stepTimeMs)
    ELSE 0

animateProgressBar(durationMs, steps) ==
    LET stepSize == 100 \div steps
        stepTimeMs == durationMs \div steps
    IN  AnimateLoop(0, stepSize, stepTimeMs)

\* the number of setTimeout sleeps of the loop of lines 167-170
RECURSIVE AnimateSleeps(_, _)
AnimateSleeps(i, stepSize) ==
    IF i <= 100 THEN 1 + AnimateSleeps(i + stepSize, stepSize) ELSE 0

\* what one call of animateProgressBar did: the duration and steps asked for, the
\* number of sleeps made and their total
Animation(kind, durationMs, steps) ==
    [kind |-> kind, durationMs |-> durationMs, steps |-> steps,
     sleeps |-> AnimateSleeps(0, 100 \div steps),
     ms |-> animateProgressBar(durationMs, steps)]

(***************************************************************************)
(* The volume: what the three probes of isVolumeReady and fs.copy see.     *)
(***************************************************************************)
\* exists: the path can be accessed; listable: its directory can be read;
\* writable: it grants write access.  A condition is false also when the
\* probe of it ends in an I/O error.
VolStates == [exists : BOOLEAN, listable : BOOLEAN, writable : BOOLEAN]

\* fs.access(NICENANO_VOLUME)
AccessOk(v) == v.exists
\* fs.readdir(NICENANO_VOLUME)
ReaddirOk(v) == v.exists /\ v.listable
\* fs.access(NICENANO_VOLUME, W_OK)
WriteAccessOk(v) == v.exists /\ v.writable
\* fs.copy(firmwarePath, NICENANO_VOLUME/basename)
CopyOk(v) == v.exists /\ v.writable

(***************************************************************************)
(* Inputs: the listings of the downloads folder and the contents of the    *)
(* archives the runs are checked on.                                       *)
(***************************************************************************)
AZip == <<"a",".","z","i","p">>
BZip == <<"b",".","z","i","p">>
CTxt == <<"c",".","t","x","t">>
LeftUf2 == <<"s","o","f","l","e","_","l","e","f","t","_","v","2",".","u","f","2">>
RightUf2 == <<"S","O","F","L","E","_","R","I","G","H","T",".","U","F","2">>
ReadmeTxt == <<"r","e","a","d","m","e",".","t","x","t">>

Listings ==
    { << >>,
      <<[name |-> CTxt, mtime |-> 3]>>,
      <<[name |-> AZip, mtime |-> 1], [name |-> BZip, mtime |-> 2],
        [name |-> CTxt, mtime |-> 3]>>,
      <<[name |-> BZip, mtime |-> 2], [name |-> AZip, mtime |-> 2]>> }

InfoTxt == <<"I","N","F","O",".","T","X","T">>

File(name, bytes) == [name |-> name, bytes |-> bytes]

\* what the selected archive unpacks to; one right firmware is a zero-length file
ArchiveContents ==
    { <<File(LeftUf2, <<1, 2>>), File(RightUf2, << >>)>>,
      <<File(ReadmeTxt, <<9>>), File(RightUf2, <<3>>), File(LeftUf2, <<4>>)>>,
      <<File(LeftUf2, <<1, 2>>), File(ReadmeTxt, <<9>>)>>,
      <<File(RightUf2, <<3>>)>>,
      << >> }

\* what the volume holds when the run starts: the bootloader's own file, with or
\* without firmware files of an earlier run
MountContents ==
    { (InfoTxt :> <<8>>),
      (InfoTxt :> <<8>>) @@ (LeftUf2 :> <<7>>) @@ (RightUf2 :> <<7, 7>>) }

\* paths are sequences of components
TempDir == <<"tmp", "keyboard-firmware">>
NICENANO_VOLUME == <<"Volumes", "NICENANO">>

\* path.join(dir, name)
PathJoin(dirPath, name) == Append(dirPath, name)
\* path.basename(path)
Basename(path) == path[Len(path)]

\* the names of a sequence of files
FileNames(files) == [i \in 1..Len(files) |-> files[i].name]

\* the contents of the file of tempDir at that path
ReadFile(path) ==
    LET i == CHOOSE i \in 1..Len(extracted) :
                PathJoin(TempDir, extracted[i].name) = path
    IN  extracted[i].bytes

\* fs.copy(src, dest) with its default overwrite: the volume afterwards
CopyFile(files, srcPath, destPath) ==
    LET dest == Basename(destPath)
    IN  [n \in (DOMAIN files) \cup {dest} |->
            IF n = dest THEN ReadFile(srcPath) ELSE files[n]]

Init ==
    /\ pc = "getZipFiles"
    /\ exitCode = -1
    /\ dir \in Listings
    /\ dirReadable \in BOOLEAN
    /\ statPending = 0
    /\ zipFiles = << >>
    /\ zipFile = NoFile
    /\ scratch = "none"
    /\ extracted = << >>
    /\ firmware = [s \in Sides |-> NoFile]
    /\ side = "none"
    /\ vol \in VolStates
    /\ volStable = TRUE
    /\ checksPassed = 0
    /\ readyResult = FALSE
    /\ polls = 0
    /\ falses = 0
    /\ trues = 0
    /\ settleMs = 0
    /\ pollMs = 0
    /\ retries = 0
    /\ attempts = [s \in Sides |-> 0]
    /\ accessOk = FALSE
    /\ lastError = NoError
    /\ raised = NoError
    /\ copyResult = [s \in Sides |-> "none"]
    /\ mount \in MountContents
    /\ lastDelay = [kind |-> "none", durationMs |-> 0, steps |-> 0, sleeps |-> 0, ms |-> 0]
    /\ log = << >>
    /\ deleteAnswer = "none"

Running == pc # "exited"

\* the variables of one isVolumeReady call and of the wait around it
waitVars == <<volStable, checksPassed, readyResult, polls, falses, trues, settleMs, pollMs>>
\* the variables of copyFirmwareToKeyboard
copyVars == <<retries, attempts, accessOk, lastError, copyResult, mount, lastDelay>>
\* the variables of the archive resolver
archiveVars == <<dir, dirReadable, statPending, zipFiles, zipFile, scratch, extracted, firmware>>

\* main's catch (lines 295-298): log the error, process.exit(1)
MainCatch(error) ==
    /\ raised' = error
    /\ exitCode' = 1
    /\ pc' = "exited"

(***************************************************************************)
(* The environment: the user plugs, unplugs or resets a keyboard half, the *)
(* OS mounts or unmounts the volume.                                       *)
(***************************************************************************)
InReadyCall == pc \in {"rdy_readdir", "rdy_waccess"}

VolumeChange ==
    /\ Running
    /\ \E v \in VolStates :
          /\ v # vol
          /\ vol' = v
    /\ volStable' = IF InReadyCall THEN FALSE ELSE volStable
    /\ UNCHANGED <<pc, exitCode, archiveVars, side, checksPassed, readyResult, polls,
                   falses, trues, settleMs, pollMs, copyVars, raised, log, deleteAnswer>>

(***************************************************************************)
(* getZipFiles, lines 50-78, and main up to the first prompt               *)
(***************************************************************************)
\* lines 235-239 and 52-57: readdir of the downloads folder; when it resolves the
\* map of line 57 calls fs.stat for every candidate before any of them completes
GetZipFiles_Readdir ==
    /\ Running /\ pc = "getZipFiles"
    /\ log' = Append(log, "list")
    /\ IF dirReadable
       THEN /\ zipFiles' = FilterZip(dir)
            /\ statPending' = Len(zipFiles')
            /\ pc' = "gz_stat"
            /\ UNCHANGED lastError
       ELSE /\ zipFiles' = << >>          \* lines 74-77
            /\ statPending' = 0
            /\ lastError' = [kind |-> "readdir", attempt |-> 0]
            /\ pc' = "main_checkZip"
    /\ UNCHANGED <<exitCode, dir, dirReadable, zipFile, scratch, extracted, firmware,
                   side, vol, waitVars, retries, attempts, accessOk, copyResult, mount,
                   lastDelay, raised, deleteAnswer>>

\* lines 58-65: one fs.stat completes; a failing one rejects the Promise.all at once,
\* which the catch of line 74 turns into the empty list
GetZipFiles_Stat ==
    /\ Running /\ pc = "gz_stat"
    /\ statPending > 0
    /\ statPending' = statPending - 1
    /\ \/ UNCHANGED <<zipFiles, pc, lastError>>
       \/ /\ zipFiles' = << >>
          /\ lastError' = [kind |-> "stat", attempt |-> 0]
          /\ pc' = "main_checkZip"
    /\ UNCHANGED <<exitCode, dir, dirReadable, zipFile, scratch, extracted, firmware,
                   side, vol, waitVars, retries, attempts, accessOk, copyResult, mount,
                   lastDelay, raised, log, deleteAnswer>>

\* mutant: the stats are not awaited before the sort
GetZipFiles_Sort_NotAwaited ==
    /\ Running /\ pc = "gz_stat"
    /\ zipFiles' = SortNewestFirst(zipFiles)
    /\ pc' = "main_checkZip"
    /\ UNCHANGED <<exitCode, dir, dirReadable, statPending, zipFile, scratch, extracted,
                   firmware, side, vol, waitVars, copyVars, raised, log, deleteAnswer>>

\* lines 56, 69-72: every stat has completed; sort newest first and return
GetZipFiles_Sort ==
    /\ Running /\ pc = "gz_stat"
    /\ statPending = 0
    /\ zipFiles' = SortNewestFirst(zipFiles)
    /\ pc' = "main_checkZip"
    /\ UNCHANGED <<exitCode, dir, dirReadable, statPending, zipFile, scratch, extracted,
                   firmware, side, vol, waitVars, copyVars, raised, log, deleteAnswer>>

\* lines 58-65: a stat still in flight after the Promise.all was rejected completes
GetZipFiles_StrayStat ==
    /\ Running /\ pc # "gz_stat"
    /\ statPending > 0
    /\ statPending' = statPending - 1
    /\ UNCHANGED <<pc, exitCode, dir, dirReadable, zipFiles, zipFile, scratch, extracted,
                   firmware, side, vol, waitVars, copyVars, raised, log, deleteAnswer>>

\* mutant: the process.exit(1) of line 242 is missing
Main_NoZipFiles_NoExit ==
    /\ Running /\ pc = "main_checkZip"
    /\ zipFiles = << >>
    /\ pc' = "ex_ensureDir"
    /\ UNCHANGED <<exitCode, archiveVars, side, vol, waitVars, copyVars, raised, log,
                   deleteAnswer>>

\* lines 240-243: nothing to select
Main_NoZipFiles ==
    /\ Running /\ pc = "main_checkZip"
    /\ zipFiles = << >>
    /\ exitCode' = 1
    /\ pc' = "exited"
    /\ UNCHANGED <<archiveVars, side, vol, waitVars, copyVars, raised, log, deleteAnswer>>

\* lines 246-256: the selection prompt; a rejected prompt reaches main's catch
Main_SelectPrompt ==
    /\ Running /\ pc = "main_checkZip"
    /\ zipFiles # << >>
    /\ log' = Append(log, "select")
    /\ \/ \E i \in 1..Len(zipFiles) :
             /\ zipFile' = zipFiles[i].name
             /\ pc' = "ex_ensureDir"
             /\ UNCHANGED <<exitCode, raised>>
       \/ /\ MainCatch([kind |-> "prompt", attempt |-> 0])
          /\ UNCHANGED zipFile
    /\ UNCHANGED <<dir, dirReadable, statPending, zipFiles, scratch, extracted, firmware,
                   side, vol, waitVars, copyVars, deleteAnswer>>

(***************************************************************************)
(* extractFirmwareFiles, lines 83-109                                      *)
(***************************************************************************)
\* lines 259, 84-85: create the scratch directory; a failure is thrown before the try
Extract_EnsureDir ==
    /\ Running /\ pc = "ex_ensureDir"
    /\ log' = Append(log, "extract")
    /\ \/ /\ scratch' = "exists"
          /\ pc' = "ex_unzip"
          /\ UNCHANGED <<exitCode, raised>>
       \/ /\ MainCatch([kind |-> "ensureDir", attempt |-> 0])
          /\ UNCHANGED scratch
    /\ UNCHANGED <<dir, dirReadable, statPending, zipFiles, zipFile, extracted, firmware,
                   side, vol, waitVars, copyVars, deleteAnswer>>

\* line 89: unzip into the scratch directory
Extract_Unzip ==
    /\ Running /\ pc = "ex_unzip"
    /\ \/ \E content \in ArchiveContents :
             /\ extracted' = content
             /\ lastError' = lastError
             /\ pc' = "ex_find"
       \/ /\ lastError' = [kind |-> "unzip", attempt |-> 0]
          /\ pc' = "ex_catch"
          /\ UNCHANGED extracted
    /\ UNCHANGED <<exitCode, dir, dirReadable, statPending, zipFiles, zipFile, scratch, firmware,
                   side, vol, waitVars, retries, attempts, accessOk, copyResult,
                   lastDelay, raised, log, deleteAnswer>>
    /\ UNCHANGED mount

\* lines 92-103: find the two firmware files, or throw; then lines 261-266
Extract_Find ==
    /\ Running /\ pc = "ex_find"
    /\ LET leftFirmware == FindFirst(FileNames(extracted), TRUE)
           rightFirmware == FindFirst(FileNames(extracted), FALSE)
       IN  IF leftFirmware = NoFile \/ rightFirmware = NoFile
           THEN /\ lastError' = [kind |-> "missing", attempt |-> 0]
                /\ pc' = "ex_catch"
                /\ UNCHANGED <<firmware, side>>
           ELSE /\ firmware' = [left |-> PathJoin(TempDir, leftFirmware),
                                 right |-> PathJoin(TempDir, rightFirmware)]
                /\ side' = "left"
                /\ pc' = "wait_enter"
                /\ UNCHANGED lastError
    /\ UNCHANGED <<exitCode, dir, dirReadable, statPending, zipFiles, zipFile, scratch, extracted,
                   vol, waitVars, retries, attempts, accessOk, copyResult,
                   lastDelay, raised, log, deleteAnswer>>
    /\ UNCHANGED mount

\* mutant: the catch rethrows without removing the scratch directory
Extract_Catch_NoCleanup ==
    /\ Running /\ pc = "ex_catch"
    /\ scratch' = scratch
    /\ MainCatch(lastError)
    /\ UNCHANGED <<dir, dirReadable, statPending, zipFiles, zipFile, extracted, firmware,
                   side, vol, waitVars, copyVars, log, deleteAnswer>>

\* lines 105-108: remove the scratch directory and rethrow; a failing remove
\* throws its own error and leaves the directory
Extract_Catch ==
    /\ Running /\ pc = "ex_catch"
    /\ \/ /\ scratch' = "removed"
          /\ MainCatch(lastError)
       \/ /\ scratch' = scratch
          /\ MainCatch([kind |-> "remove", attempt |-> 0])
    /\ UNCHANGED <<dir, dirReadable, statPending, zipFiles, zipFile, extracted, firmware,
                   side, vol, waitVars, copyVars, log, deleteAnswer>>

(***************************************************************************)
(* isVolumeReady, lines 114-130, and waitForBootloaderMode, lines 135-152  *)
(***************************************************************************)
Saturate(n) == IF n < MaxPolls THEN n + 1 ELSE n

\* lines 266 / 270, 136-137: the two log lines of waitForBootloaderMode
Wait_Enter ==
    /\ Running /\ pc = "wait_enter"
    /\ log' = Append(log, "wait_" \o side)
    /\ polls' = 0 /\ falses' = 0 /\ trues' = 0
    /\ settleMs' = 0 /\ pollMs' = 0
    /\ pc' = "rdy_access"
    /\ UNCHANGED <<exitCode, archiveVars, side, vol, volStable, checksPassed,
                   readyResult, copyVars, raised, deleteAnswer>>

\* return of isVolumeReady to line 141
ReadyReturn(result) ==
    /\ readyResult' = result
    /\ trues' = IF result THEN trues + 1 ELSE trues
    /\ falses' = IF result THEN falses ELSE Saturate(falses)
    /\ pc' = "wait_test"

\* line 117: fs.access(NICENANO_VOLUME); failure is caught at line 127
Ready_Access ==
    /\ Running /\ pc = "rdy_access"
    /\ polls' = Saturate(polls)
    /\ volStable' = TRUE
    /\ IF AccessOk(vol)
       THEN /\ checksPassed' = 1
            /\ pc' = "rdy_readdir"
            /\ UNCHANGED <<readyResult, trues, falses>>
       ELSE /\ checksPassed' = 0
            /\ ReadyReturn(FALSE)
    /\ UNCHANGED <<exitCode, archiveVars, side, vol, settleMs, pollMs, copyVars,
                   raised, log, deleteAnswer>>

\* line 120: fs.readdir(NICENANO_VOLUME)
Ready_Readdir ==
    /\ Running /\ pc = "rdy_readdir"
    /\ IF ReaddirOk(vol)
       THEN /\ checksPassed' = 2
            /\ pc' = "rdy_waccess"
            /\ UNCHANGED <<readyResult, trues, falses>>
       ELSE /\ UNCHANGED checksPassed
            /\ ReadyReturn(FALSE)
    /\ UNCHANGED <<exitCode, archiveVars, side, vol, volStable, polls, settleMs,
                   pollMs, copyVars, raised, log, deleteAnswer>>

\* mutant: the W_OK flag is missing from the third probe
Ready_WriteAccess_NoFlag ==
    /\ Running /\ pc = "rdy_waccess"
    /\ IF AccessOk(vol)
       THEN /\ checksPassed' = 3
            /\ ReadyReturn(TRUE)
       ELSE /\ UNCHANGED checksPassed
            /\ ReadyReturn(FALSE)
    /\ UNCHANGED <<exitCode, archiveVars, side, vol, volStable, polls, settleMs,
                   pollMs, copyVars, raised, log, deleteAnswer>>

\* lines 123-125: fs.access(NICENANO_VOLUME, W_OK), then return true
Ready_WriteAccess ==
    /\ Running /\ pc = "rdy_waccess"
    /\ IF WriteAccessOk(vol)
       THEN /\ checksPassed' = 3
            /\ ReadyReturn(TRUE)
       ELSE /\ UNCHANGED checksPassed
            /\ ReadyReturn(FALSE)
    /\ UNCHANGED <<exitCode, archiveVars, side, vol, volStable, polls, settleMs,
                   pollMs, copyVars, raised, log, deleteAnswer>>

\* mutant: the settle delay is missing
Wait_Detected_NoSettle ==
    /\ Running /\ pc = "wait_test"
    /\ readyResult
    /\ settleMs' = settleMs
    /\ volStable' = TRUE /\ checksPassed' = 0
    /\ pc' = "cp_enter"
    /\ UNCHANGED <<exitCode, archiveVars, side, vol, readyResult, polls, falses,
                   trues, pollMs, copyVars, raised, log, deleteAnswer>>

\* lines 141-146: detected; settle, return to main (line 267 / 271).
\* The history of the isVolumeReady call ends with the call.
Wait_Detected ==
    /\ Running /\ pc = "wait_test"
    /\ readyResult
    /\ settleMs' = settleMs + SettleDelay
    /\ volStable' = TRUE /\ checksPassed' = 0
    /\ pc' = "cp_enter"
    /\ UNCHANGED <<exitCode, archiveVars, side, vol, readyResult, polls, falses,
                   trues, pollMs, copyVars, raised, log, deleteAnswer>>

\* mutant: the wait gives up with a timeout error after MaxPolls checks
Wait_Retry_GivesUp ==
    /\ Running /\ pc = "wait_test"
    /\ ~readyResult
    /\ volStable' = TRUE /\ checksPassed' = 0
    /\ IF polls >= MaxPolls
       THEN /\ MainCatch([kind |-> "timeout", attempt |-> 0])
            /\ UNCHANGED pollMs
       ELSE /\ pollMs' = PollInterval
            /\ pc' = "rdy_access"
            /\ UNCHANGED <<exitCode, raised>>
    /\ UNCHANGED <<archiveVars, side, vol, readyResult, polls, falses,
                   trues, settleMs, copyVars, log, deleteAnswer>>

\* line 150: not ready; sleep and check again
Wait_Retry ==
    /\ Running /\ pc = "wait_test"
    /\ ~readyResult
    /\ pollMs' = PollInterval
    /\ volStable' = TRUE /\ checksPassed' = 0
    /\ pc' = "rdy_access"
    /\ UNCHANGED <<exitCode, archiveVars, side, vol, readyResult, polls, falses,
                   trues, settleMs, copyVars, raised, log, deleteAnswer>>

(***************************************************************************)
(* copyFirmwareToKeyboard, lines 177-228                                   *)
(***************************************************************************)
\* mutant: main does not wait for the right half
CopyReturn_SkipsWait ==
    IF side = "left"
    THEN /\ side' = "right"
         /\ pc' = "cp_enter"
    ELSE /\ side' = side
         /\ pc' = "complete"

\* return of copyFirmwareToKeyboard to main: line 270 after the left copy,
\* line 273 after the right one
CopyReturn ==
    IF side = "left"
    THEN /\ side' = "right"
         /\ pc' = "wait_enter"
    ELSE /\ side' = side
         /\ pc' = "complete"

\* mutant: retries is a module-level counter that a call does not reset
Copy_Enter_SharedCounter ==
    /\ Running /\ pc = "cp_enter"
    /\ log' = Append(log, "copy_" \o side)
    /\ retries' = retries
    /\ lastError' = NoError
    /\ polls' = 0 /\ falses' = 0 /\ trues' = 0
    /\ settleMs' = 0 /\ pollMs' = 0
    /\ pc' = "cp_loop"
    /\ UNCHANGED <<exitCode, archiveVars, side, vol, volStable, checksPassed,
                   readyResult, attempts, accessOk, copyResult, lastDelay, raised,
                   deleteAnswer>>
    /\ UNCHANGED mount

\* lines 267 / 271, 178-189: the locals of a call.  The history of the wait
\* that returned ends here.
Copy_Enter ==
    /\ Running /\ pc = "cp_enter"
    /\ log' = Append(log, "copy_" \o side)
    /\ retries' = 0
    /\ lastError' = NoError
    /\ polls' = 0 /\ falses' = 0 /\ trues' = 0
    /\ settleMs' = 0 /\ pollMs' = 0
    /\ pc' = "cp_loop"
    /\ UNCHANGED <<exitCode, archiveVars, side, vol, volStable, checksPassed,
                   readyResult, attempts, accessOk, copyResult, lastDelay, raised,
                   deleteAnswer>>
    /\ UNCHANGED mount

\* lines 191-199: the loop test, then the first progress bar of an attempt;
\* when the test fails the function falls out of the loop and returns
Copy_Prepare ==
    /\ Running /\ pc = "cp_loop"
    /\ IF retries < maxRetries
       THEN /\ attempts' = [attempts EXCEPT ![side] = @ + 1]
            /\ accessOk' = FALSE
            /\ lastDelay' = Animation("prepare", PrepareMs, PrepareSteps)
            /\ pc' = "cp_access"
            /\ UNCHANGED side
       ELSE /\ CopyReturn
            /\ UNCHANGED <<attempts, accessOk, lastDelay>>
    /\ UNCHANGED <<exitCode, archiveVars, vol, waitVars, retries, lastError,
                   copyResult, raised, log, deleteAnswer>>
    /\ UNCHANGED mount

\* mutant: the outcome of the writability check is ignored
Copy_Access_Unchecked ==
    /\ Running /\ pc = "cp_access"
    /\ accessOk' = WriteAccessOk(vol)
    /\ pc' = "cp_copy"
    /\ UNCHANGED lastError
    /\ UNCHANGED <<exitCode, archiveVars, side, vol, waitVars, retries, attempts,
                   copyResult, lastDelay, raised, log, deleteAnswer>>
    /\ UNCHANGED mount

\* line 202: the volume must be writable
Copy_Access ==
    /\ Running /\ pc = "cp_access"
    /\ IF WriteAccessOk(vol)
       THEN /\ accessOk' = TRUE
            /\ pc' = "cp_copy"
            /\ UNCHANGED lastError
       ELSE /\ lastError' = [kind |-> "access", attempt |-> attempts[side]]
            /\ pc' = "cp_catch"
            /\ UNCHANGED accessOk
    /\ UNCHANGED <<exitCode, archiveVars, side, vol, waitVars, retries, attempts,
                   copyResult, lastDelay, raised, log, deleteAnswer>>
    /\ UNCHANGED mount

\* mutant: fs.copy is called with overwrite: false, which keeps an existing file
Copy_Copy_NoOverwrite ==
    /\ Running /\ pc = "cp_copy"
    /\ IF CopyOk(vol)
       THEN /\ mount' = IF Basename(firmware[side]) \in DOMAIN mount
                        THEN mount
                        ELSE CopyFile(mount, firmware[side],
                                      PathJoin(NICENANO_VOLUME, Basename(firmware[side])))
            /\ pc' = "cp_restart"
            /\ UNCHANGED lastError
       ELSE /\ lastError' = [kind |-> "copy", attempt |-> attempts[side]]
            /\ pc' = "cp_catch"
            /\ UNCHANGED mount
    /\ UNCHANGED <<exitCode, archiveVars, side, vol, waitVars, retries, attempts,
                   accessOk, copyResult, lastDelay, raised, log, deleteAnswer>>

\* lines 205-206: copy the firmware file onto the volume
Copy_Copy ==
    /\ Running /\ pc = "cp_copy"
    /\ IF CopyOk(vol)
       THEN /\ mount' = CopyFile(mount, firmware[side],
                                 PathJoin(NICENANO_VOLUME, Basename(firmware[side])))
            /\ pc' = "cp_restart"
            /\ UNCHANGED lastError
       ELSE /\ lastError' = [kind |-> "copy", attempt |-> attempts[side]]
            /\ pc' = "cp_catch"
            /\ UNCHANGED mount
    /\ UNCHANGED <<exitCode, archiveVars, side, vol, waitVars, retries, attempts,
                   accessOk, copyResult, lastDelay, raised, log, deleteAnswer>>

\* lines 209-212: the restart progress bar, then return
Copy_Restart ==
    /\ Running /\ pc = "cp_restart"
    /\ lastDelay' = Animation("restart", RestartMs, RestartSteps)
    /\ copyResult' = [copyResult EXCEPT ![side] = "success"]
    /\ CopyReturn
    /\ UNCHANGED <<exitCode, archiveVars, vol, waitVars, retries, attempts, accessOk,
                   lastError, raised, log, deleteAnswer>>
    /\ UNCHANGED mount

\* mutant: the bound is tested one attempt early
Copy_Catch_GivesUpEarly ==
    /\ Running /\ pc = "cp_catch"
    /\ retries' = retries + 1
    /\ IF retries' >= maxRetries - 1
       THEN /\ copyResult' = [copyResult EXCEPT ![side] = "exhausted"]
            /\ MainCatch(lastError)
            /\ UNCHANGED side
       ELSE /\ pc' = "cp_backoff"
            /\ UNCHANGED <<copyResult, exitCode, raised, side>>
    /\ UNCHANGED <<archiveVars, vol, waitVars, attempts, accessOk,
                   lastError, lastDelay, log, deleteAnswer>>
    /\ UNCHANGED mount

\* mutant: the bound is tested with > instead of >=
Copy_Catch_OffByOne ==
    /\ Running /\ pc = "cp_catch"
    /\ retries' = retries + 1
    /\ IF retries' > maxRetries
       THEN /\ copyResult' = [copyResult EXCEPT ![side] = "exhausted"]
            /\ MainCatch(lastError)
            /\ UNCHANGED side
       ELSE /\ pc' = "cp_backoff"
            /\ UNCHANGED <<copyResult, exitCode, raised, side>>
    /\ UNCHANGED <<archiveVars, vol, waitVars, attempts, accessOk,
                   lastError, lastDelay, log, deleteAnswer>>
    /\ UNCHANGED mount

\* mutant: at the bound the error is logged and the function returns
Copy_Catch_Swallow ==
    /\ Running /\ pc = "cp_catch"
    /\ retries' = retries + 1
    /\ IF retries' >= maxRetries
       THEN /\ copyResult' = [copyResult EXCEPT ![side] = "exhausted"]
            /\ CopyReturn
            /\ UNCHANGED <<exitCode, raised>>
       ELSE /\ pc' = "cp_backoff"
            /\ UNCHANGED <<copyResult, exitCode, raised, side>>
    /\ UNCHANGED <<archiveVars, vol, waitVars, attempts, accessOk,
                   lastError, lastDelay, log, deleteAnswer>>
    /\ UNCHANGED mount

\* mutant: the catch never rethrows, so the loop ends by its own test
Copy_Catch_NoThrow ==
    /\ Running /\ pc = "cp_catch"
    /\ retries' = retries + 1
    /\ pc' = "cp_backoff"
    /\ UNCHANGED <<copyResult, exitCode, raised>>
    /\ UNCHANGED <<archiveVars, side, vol, waitVars, attempts, accessOk, lastError, lastDelay, log, deleteAnswer>>
    /\ UNCHANGED mount

\* lines 214-221: count the failure; rethrow the caught error at the bound
Copy_Catch ==
    /\ Running /\ pc = "cp_catch"
    /\ retries' = retries + 1
    /\ IF retries' >= maxRetries
       THEN /\ copyResult' = [copyResult EXCEPT ![side] = "exhausted"]
            /\ MainCatch(lastError)
       ELSE /\ pc' = "cp_backoff"
            /\ UNCHANGED <<copyResult, exitCode, raised>>
    /\ UNCHANGED <<archiveVars, side, vol, waitVars, attempts, accessOk, lastError, lastDelay, log, deleteAnswer>>
    /\ UNCHANGED mount

\* line 224: the retry progress bar, then back to the loop test
Copy_Backoff ==
    /\ Running /\ pc = "cp_backoff"
    /\ lastDelay' = Animation("backoff", retryDelay, BackoffSteps)
    /\ pc' = "cp_loop"
    /\ UNCHANGED <<exitCode, archiveVars, side, vol, waitVars, retries, attempts,
                   accessOk, lastError, copyResult, raised, log, deleteAnswer>>
    /\ UNCHANGED mount

(***************************************************************************)
(* main after the two passes, lines 273-294                                *)
(***************************************************************************)
\* main returns and the process ends with status 0
MainReturn ==
    /\ exitCode' = 0
    /\ pc' = "exited"

\* mutant: main removes the scratch directory once both copies are done
Main_Complete_Cleans ==
    /\ Running /\ pc = "complete"
    /\ log' = Append(log, "complete")
    /\ scratch' = "removed"
    /\ pc' = "prompt_delete"
    /\ UNCHANGED <<exitCode, dir, dirReadable, statPending, zipFiles, zipFile, extracted,
                   firmware, side, vol, waitVars, copyVars, raised, deleteAnswer>>

\* line 273
Main_Complete ==
    /\ Running /\ pc = "complete"
    /\ log' = Append(log, "complete")
    /\ pc' = "prompt_delete"
    /\ UNCHANGED <<exitCode, archiveVars, side, vol, waitVars, copyVars, raised,
                   deleteAnswer>>

\* mutant: the answer to the prompt is not tested
Main_DeletePrompt_IgnoresAnswer ==
    /\ Running /\ pc = "prompt_delete"
    /\ log' = Append(log, "prompt_delete")
    /\ \/ /\ deleteAnswer' \in {"yes", "no"}
          /\ pc' = "unlink"
          /\ UNCHANGED <<exitCode, raised>>
       \/ /\ deleteAnswer' = "rejected"
          /\ MainCatch([kind |-> "prompt", attempt |-> 0])
    /\ UNCHANGED <<archiveVars, side, vol, waitVars, copyVars>>

\* lines 276-285: the confirm prompt; a rejected prompt reaches main's catch
Main_DeletePrompt ==
    /\ Running /\ pc = "prompt_delete"
    /\ log' = Append(log, "prompt_delete")
    /\ \/ /\ deleteAnswer' = "yes"
          /\ pc' = "unlink"
          /\ UNCHANGED <<exitCode, raised>>
       \/ /\ deleteAnswer' = "no"
          /\ MainReturn
          /\ UNCHANGED raised
       \/ /\ deleteAnswer' = "rejected"
          /\ MainCatch([kind |-> "prompt", attempt |-> 0])
    /\ UNCHANGED <<archiveVars, side, vol, waitVars, copyVars>>

\* the directory without the entry of that name
RECURSIVE Unlinked(_, _)
Unlinked(files, name) ==
    IF files = << >> THEN << >>
    ELSE IF Head(files).name = name
         THEN Unlinked(Tail(files), name)
         ELSE <<Head(files)>> \o Unlinked(Tail(files), name)

\* mutant: the error of unlinkSync is not caught by the inner try
Main_Unlink_Uncaught ==
    /\ Running /\ pc = "unlink"
    /\ \/ /\ dir' = Unlinked(dir, zipFile)
          /\ MainReturn
          /\ UNCHANGED raised
       \/ /\ dir' = dir
          /\ MainCatch([kind |-> "unlink", attempt |-> 0])
    /\ UNCHANGED <<dirReadable, statPending, zipFiles, zipFile, scratch, extracted, firmware,
                   side, vol, waitVars, copyVars, log, deleteAnswer>>

\* lines 286-292: unlinkSync; its error is caught and logged
Main_Unlink ==
    /\ Running /\ pc = "unlink"
    /\ \/ dir' = Unlinked(dir, zipFile)
       \/ dir' = dir
    /\ MainReturn
    /\ UNCHANGED <<dirReadable, statPending, zipFiles, zipFile, scratch, extracted, firmware,
                   side, vol, waitVars, copyVars, raised, log, deleteAnswer>>

(***************************************************************************)
(* The specifications                                                      *)
(***************************************************************************)
WaitStep ==
    \/ Ready_Access
    \/ Ready_Readdir
    \/ Ready_WriteAccess
    \/ Wait_Detected
    \/ Wait_Retry

Next ==
    \/ VolumeChange
    \/ GetZipFiles_Readdir
    \/ GetZipFiles_Stat
    \/ GetZipFiles_Sort
    \/ GetZipFiles_StrayStat
    \/ Main_NoZipFiles
    \/ Main_SelectPrompt
    \/ Extract_EnsureDir
    \/ Extract_Unzip
    \/ Extract_Find
    \/ Extract_Catch
    \/ Wait_Enter
    \/ Ready_Access
    \/ Ready_Readdir
    \/ Ready_WriteAccess
    \/ Wait_Detected
    \/ Wait_Retry
    \/ Copy_Enter
    \/ Copy_Prepare
    \/ Copy_Access
    \/ Copy_Copy
    \/ Copy_Restart
    \/ Copy_Catch
    \/ Copy_Backoff
    \/ Main_Complete
    \/ Main_DeletePrompt
    \/ Main_Unlink

Spec == Init /\ [][Next]_vars

(***************************************************************************)
(* getZipFiles alone, on every listing of up to MaxFiles entries           *)
(***************************************************************************)
DotZipOnly == <<".","z","i","p">>
DZipUpper == <<"d",".","Z","I","P">>
ZipNoDot == <<"z","i","p">>

NamePool == {AZip, BZip, CTxt, DotZipOnly, DZipUpper, ZipNoDot}

\* the sequences of up to MaxFiles entries with distinct names
AllListings ==
    UNION { { l \in [1..n -> [name : NamePool, mtime : 1..MaxMtime]] :
                \A i, j \in 1..n : i # j => l[i].name # l[j].name }
            : n \in 0..MaxFiles }

ListInit ==
    /\ pc = "getZipFiles"
    /\ exitCode = -1
    /\ dir \in AllListings
    /\ dirReadable \in BOOLEAN
    /\ statPending = 0
    /\ zipFiles = << >>
    /\ zipFile = NoFile
    /\ scratch = "none"
    /\ extracted = << >>
    /\ firmware = [s \in Sides |-> NoFile]
    /\ side = "none"
    /\ vol = [exists |-> FALSE, listable |-> FALSE, writable |-> FALSE]
    /\ volStable = TRUE
    /\ checksPassed = 0
    /\ readyResult = FALSE
    /\ polls = 0
    /\ falses = 0
    /\ trues = 0
    /\ settleMs = 0
    /\ pollMs = 0
    /\ retries = 0
    /\ attempts = [s \in Sides |-> 0]
    /\ accessOk = FALSE
    /\ lastError = NoError
    /\ raised = NoError
    /\ copyResult = [s \in Sides |-> "none"]
    /\ mount = (InfoTxt :> <<8>>)
    /\ lastDelay = [kind |-> "none", durationMs |-> 0, steps |-> 0, sleeps |-> 0, ms |-> 0]
    /\ log = << >>
    /\ deleteAnswer = "none"

ListNext ==
    \/ GetZipFiles_Readdir
    \/ GetZipFiles_Stat
    \/ GetZipFiles_Sort
    \/ GetZipFiles_StrayStat
    \/ Main_NoZipFiles

ListSpec == ListInit /\ [][ListNext]_vars

\* the event loop runs a pending timer or I/O callback of the wait eventually
FairSpec == Spec /\ WF_vars(WaitStep)

(***************************************************************************)
(* Properties                                                              *)
(***************************************************************************)
AttemptPcs == {"cp_access", "cp_copy", "cp_restart", "cp_catch"}
ReadyPcs == {"rdy_access", "rdy_readdir", "rdy_waccess"}
WaitPcs == ReadyPcs \cup {"wait_test"}

\* the thread of control takes a step (the environment's steps leave pc alone)
Steps == pc' # pc

\* C1, part 1: during attempt k exactly k-1 failures have been counted, k <= 5
C1_Counted ==
    pc \in AttemptPcs => /\ attempts[side] = retries + 1
                         /\ attempts[side] \in 1..5

\* C1, part 2: a failure of an attempt before the 5th is followed by a retry
C1_Retried ==
    /\ (pc = "cp_catch" /\ attempts[side] < 5 /\ Steps)
          => pc' = "cp_backoff" /\ exitCode' = -1
    /\ (pc = "cp_backoff" /\ Steps) => pc' = "cp_loop"
    /\ (pc = "cp_loop" /\ retries < 5 /\ Steps)
          => pc' = "cp_access" /\ attempts'[side] = attempts[side] + 1

\* C1, part 3: when attempt k succeeds the call returns success, k attempts made
C1_Returned ==
    (pc = "cp_restart" /\ Steps)
       => /\ copyResult'[side] = "success"
          /\ attempts'[side] = retries + 1
          /\ exitCode' = -1
          /\ pc' \in {"wait_enter", "complete"}

\* C1: copyFirmwareToKeyboard whose attempts 1..k-1 fail and whose attempt k
\* succeeds (k in 1..5) returns success after exactly k attempts
C1_SuccessAfterKAttempts ==
    /\ []C1_Counted
    /\ [][C1_Retried /\ C1_Returned]_vars
    /\ [](\A s \in Sides : copyResult[s] = "success" => attempts[s] \in 1..5)

\* the left copy succeeded on its 5th attempt
C1_Witness ==
    /\ copyResult["left"] = "success"
    /\ attempts["left"] = 5
    /\ pc = "wait_enter"
    /\ retries = 4

\* C2, part 1: an exhausted call made 5 attempts and raised the error of the 5th,
\* and the last delay before the raise was not a backoff
C2_Exhausted ==
    \A s \in Sides :
       copyResult[s] = "exhausted"
          => /\ attempts[s] = 5
             /\ raised.kind \in {"access", "copy"}
             /\ raised.attempt = 5
             /\ lastDelay.kind = "prepare"
             /\ pc = "exited"

\* C2, part 2: the failure of the 5th attempt ends the call by raising
C2_FifthFailureRaises ==
    (pc = "cp_catch" /\ attempts[side] = 5 /\ Steps)
       => /\ copyResult'[side] = "exhausted"
          /\ raised' = lastError
          /\ lastDelay' = lastDelay
          /\ pc' = "exited"

\* C2: when every attempt fails, exactly 5 attempts are made (never a 6th), the
\* error of the 5th attempt is raised, and no backoff follows the last failure
C2_ExhaustedAfterFive ==
    /\ []C2_Exhausted
    /\ [](\A s \in Sides : attempts[s] <= 5)
    /\ [][C2_FifthFailureRaises]_vars

\* the right copy is exhausted by a failing fs.copy on its 5th attempt
C2_Witness ==
    /\ copyResult["right"] = "exhausted"
    /\ raised = [kind |-> "copy", attempt |-> 5]

IsPrefix(s, t) == Len(s) <= Len(t) /\ s = SubSeq(t, 1, Len(s))

InLog(e) == \E i \in 1..Len(log) : log[i] = e

RunOrder == <<"list", "select", "extract", "wait_left", "copy_left",
              "wait_right", "copy_right", "complete", "prompt_delete">>

\* C3: the phases of a run occur in the order list, select, extract, wait-left,
\* copy-left, wait-right, copy-right, completion; the right wait starts only after
\* the left copy returned success, the right pass starts only when the left one is
\* over, and a copy is entered straight from a readiness observation of true made
\* by the wait of its own pass
C3_StrictOrder ==
    /\ IsPrefix(log, RunOrder)
    /\ InLog("wait_right") => copyResult["left"] = "success"
    /\ side = "right" => copyResult["left"] = "success"
    /\ pc = "cp_enter" => readyResult /\ trues = 1 /\ InLog("wait_" \o side)
    /\ InLog("copy_right") => InLog("wait_right")
    /\ InLog("complete") => copyResult["right"] = "success"

\* a run arrived at its completion message
C3_Witness ==
    /\ pc = "prompt_delete"
    /\ log = SubSeq(RunOrder, 1, 8)

\* C4: an exhausted copy ends the run with a non-zero status; after an exhausted
\* left copy the right wait and the right copy were never started, and neither the
\* completion message nor the delete prompt is reached
C4_ExhaustedAborts ==
    /\ (\E s \in Sides : copyResult[s] = "exhausted")
          => /\ pc = "exited"
             /\ exitCode = 1
             /\ ~InLog("complete")
             /\ ~InLog("prompt_delete")
             /\ deleteAnswer = "none"
    /\ copyResult["left"] = "exhausted"
          => /\ ~InLog("wait_right")
             /\ ~InLog("copy_right")
             /\ attempts["right"] = 0
             /\ copyResult["right"] = "none"
             /\ side = "left"

\* the left copy is exhausted
C4_Witness ==
    /\ copyResult["left"] = "exhausted"
    /\ exitCode = 1

AllThree(v) == v.exists /\ v.listable /\ v.writable

\* C5, part 1: the value returned; with the volume unchanged during the call it is
\* true exactly when the volume exists, is listable and is writable
C5_Returns ==
    (pc \in ReadyPcs /\ pc' = "wait_test")
       => /\ readyResult' => checksPassed' = 3
          /\ ~readyResult' => checksPassed' < 3
          /\ volStable => (readyResult' <=> AllThree(vol))

\* C5, part 2: a call ends by returning, never by raising
C5_NeverRaises ==
    (pc \in ReadyPcs /\ Steps)
       => /\ pc' \in ReadyPcs \cup {"wait_test"}
          /\ exitCode' = -1
          /\ raised' = raised

\* C5: isVolumeReady returns true if and only if the path exists, is listable and
\* is writable, and returns false, raising nothing, in every other case
C5_ReadyIffAllThree == [][C5_Returns /\ C5_NeverRaises]_vars

\* a call returned false on a volume that exists and is listable, not writable
C5_Witness ==
    /\ pc = "wait_test"
    /\ ~readyResult
    /\ checksPassed = 2
    /\ volStable
    /\ vol = [exists |-> TRUE, listable |-> TRUE, writable |-> FALSE]

\* C6: waitForBootloaderMode returns only after a readiness check returned true,
\* with exactly one observation of true and one settle delay of 1500 ms; on a
\* mount that is ready at once it makes exactly one readiness check
C6_OneTrueThenSettle ==
    /\ trues <= 1
    /\ settleMs \in {0, 1500}
    /\ settleMs = 1500 => pc = "cp_enter"
    /\ pc = "cp_enter"
          => /\ readyResult
             /\ trues = 1
             /\ settleMs = 1500
             /\ falses = 0 => polls = 1
             /\ polls < MaxPolls => polls = falses + 1

\* the left wait returned after a single readiness check
C6_Witness ==
    /\ pc = "cp_enter"
    /\ side = "left"
    /\ polls = 1
    /\ falses = 0
    /\ settleMs = 1500

\* C7, part 1: a false readiness check is followed by a 1000 ms sleep and another
\* check, whatever the number of checks made; the wait never ends the run
C7_PollsAgain ==
    /\ (pc = "wait_test" /\ ~readyResult /\ Steps)
          => pc' = "rdy_access" /\ pollMs' = 1000 /\ exitCode' = -1
    /\ (pc = "rdy_access" /\ polls > 0) => pollMs = 1000
    /\ (pc \in WaitPcs /\ Steps) => pc' \in WaitPcs \cup {"cp_enter"}
    /\ (pc \in WaitPcs /\ pc' = "cp_enter") => readyResult

\* C7, part 2: the next check is never disabled
C7_NoBound ==
    /\ (pc = "wait_test" /\ ~readyResult) => ENABLED Wait_Retry
    /\ pc = "rdy_access" => ENABLED Ready_Access
    /\ pc \in WaitPcs => exitCode = -1

\* C7: waitForBootloaderMode has no failure exit: while the checks return false it
\* sleeps 1000 ms and checks again, without bound; when the volume becomes and stays
\* ready the wait returns
C7_PollsUntilReady ==
    /\ [][C7_PollsAgain]_vars
    /\ []C7_NoBound
    /\ (<>[]AllThree(vol)) => []<>(pc \notin WaitPcs)

\* a wait returned after at least two false readiness checks
C7_Witness ==
    /\ pc = "cp_enter"
    /\ falses >= 2
    /\ readyResult

\* C8, part 1: the copy is reached only from a writability check that succeeded
\* in the same attempt
C8_CheckedBeforeCopy ==
    /\ (pc' = "cp_copy" /\ Steps) => pc = "cp_access" /\ WriteAccessOk(vol) /\ accessOk'
    /\ (pc = "cp_access" /\ Steps /\ ~WriteAccessOk(vol))
          => pc' = "cp_catch" /\ lastError' = [kind |-> "access", attempt |-> attempts[side]]
    /\ (pc = "cp_loop" /\ Steps) => ~accessOk'

\* C8, part 2: a failed check counts as an attempt and is retried
C8_FailedCheckRetried ==
    (pc = "cp_catch" /\ lastError.kind = "access" /\ retries < 4 /\ Steps)
       => /\ retries' = retries + 1
          /\ pc' = "cp_backoff"
          /\ exitCode' = -1

\* C8: in every attempt the writability of the volume is checked immediately
\* before the copy, which is invoked only if the check succeeded; a volume lost
\* after the wait makes a failed, counted attempt that is retried
C8_RecheckedEachAttempt ==
    /\ [](pc = "cp_copy" => accessOk)
    /\ [][C8_CheckedBeforeCopy /\ C8_FailedCheckRetried]_vars

\* the volume went away after the left wait: attempt 1 failed its check, retry pending
C8_Witness ==
    /\ pc = "cp_backoff"
    /\ side = "left"
    /\ retries = 1
    /\ lastError = [kind |-> "access", attempt |-> 1]
    /\ exitCode = -1

BothCopied == \A s \in Sides : copyResult[s] = "success"

Names(files) == {files[i].name : i \in 1..Len(files)}

\* C9: after both copies succeeded the process ends with status 0 whether the user
\* declines the deletion, the deletion succeeds or the deletion fails
C9_ZeroAfterSuccess ==
    /\ (pc = "exited" /\ BothCopied /\ deleteAnswer \in {"yes", "no"}) => exitCode = 0
    /\ pc = "unlink" => BothCopied /\ deleteAnswer = "yes" /\ exitCode = -1
    /\ exitCode = 0 => BothCopied /\ deleteAnswer \in {"yes", "no"} /\ raised = NoError

\* the user said yes, the deletion failed, the process ended with status 0
C9_Witness ==
    /\ pc = "exited"
    /\ deleteAnswer = "yes"
    /\ zipFile \in Names(dir)
    /\ exitCode = 0

\* C10, part 1: the downloads folder changes only by losing the selected archive,
\* in a run where both copies succeeded and the user answered yes
C10_OnlyDeletion ==
    dir' # dir
       => /\ BothCopied
          /\ deleteAnswer = "yes"
          /\ Names(dir') = Names(dir) \ {zipFile}
          /\ \A i \in 1..Len(dir') : \E j \in 1..Len(dir) : dir'[i] = dir[j]

\* C10, part 2: the delete prompt is shown only after both copies succeeded
C10_PromptAfterCopies ==
    (InLog("prompt_delete") \/ deleteAnswer # "none") => BothCopied

\* C10: the archive is deleted only when both copies succeeded and the user answered
\* yes, every other path leaves it unchanged, and the delete prompt is shown only
\* after both copies succeeded
C10_DeleteOnlyOnYes ==
    /\ [][C10_OnlyDeletion]_vars
    /\ []C10_PromptAfterCopies

\* the selected archive was deleted
C10_Witness ==
    /\ pc = "exited"
    /\ deleteAnswer = "yes"
    /\ zipFile # NoFile
    /\ zipFile \notin Names(dir)
    /\ exitCode = 0

\* the device was neither probed nor written
DeviceUntouched ==
    /\ polls = 0 /\ trues = 0 /\ falses = 0
    /\ \A s \in Sides : attempts[s] = 0 /\ copyResult[s] = "none"
    /\ side = "none"

\* C11, part 1: an unreadable downloads folder makes getZipFiles return the empty
\* list, raising nothing
C11_ReadFailureCaught ==
    (pc = "getZipFiles" /\ ~dirReadable /\ Steps)
       => /\ zipFiles' = << >>
          /\ pc' = "main_checkZip"
          /\ raised' = NoError
          /\ exitCode' = -1

\* C11, part 2: an empty candidate list ends the run with status 1, and nothing
\* but the listing has happened
C11_EmptyListExits ==
    /\ (pc = "main_checkZip" /\ zipFiles = << >> /\ Steps)
          => pc' = "exited" /\ exitCode' = 1 /\ log' = log
    /\ (pc' = "exited" /\ zipFiles' = << >>)
          => /\ exitCode' = 1
             /\ log' = <<"list">>
             /\ zipFile' = NoFile
             /\ scratch' = "none" /\ extracted' = << >>
             /\ DeviceUntouched'

\* C11: when the archive directory cannot be read getZipFiles raises nothing and
\* returns an empty list; with an empty candidate list the run ends with a non-zero
\* status without the selection prompt, an extraction or a touch of the device
C11_NoArchivesExits == [][C11_ReadFailureCaught /\ C11_EmptyListExits]_vars

\* the run ended on an unreadable folder that holds archives
C11_Witness ==
    /\ pc = "exited"
    /\ ~dirReadable
    /\ Len(dir) >= 2
    /\ zipFiles = << >>
    /\ exitCode = 1

ExtractionFailed == lastError.kind \in {"unzip", "missing"}

HasMatch(files, isLeft) ==
    \E i \in 1..Len(files) :
       IF isLeft THEN LEFT_FIRMWARE_PATTERN(files[i]) ELSE RIGHT_FIRMWARE_PATTERN(files[i])

\* C12 as stated: after a failed unzip or a missing firmware file the error reaches
\* the caller with no partial result, the scratch directory removed, and no device
\* waited for or copied to
C12_AsStated ==
    (pc = "exited" /\ ExtractionFailed)
       => /\ raised # NoError
          /\ exitCode = 1
          /\ \A s \in Sides : firmware[s] = NoFile
          /\ scratch = "removed"
          /\ DeviceUntouched

\* C12 amended, part 1: the state in which the error has reached main
C12_AbortedState ==
    (pc = "exited" /\ ExtractionFailed)
       => /\ raised # NoError
          /\ exitCode = 1
          /\ \A s \in Sides : firmware[s] = NoFile
          /\ raised = lastError => scratch = "removed"
          /\ scratch # "removed" => scratch = "exists" /\ raised.kind = "remove"
          /\ DeviceUntouched
          /\ ~InLog("wait_left")

\* C12 amended, part 2: a failed unzip and a pattern without a match both end in the
\* catch of line 105, from which the only way on is main's catch
C12_FailureThrown ==
    /\ (pc = "ex_unzip" /\ Steps) => pc' \in {"ex_find", "ex_catch"}
    /\ (pc = "ex_unzip" /\ pc' = "ex_catch") => lastError'.kind = "unzip"
    /\ (pc = "ex_find" /\ Steps /\ ~(HasMatch(FileNames(extracted), TRUE)
                                      /\ HasMatch(FileNames(extracted), FALSE)))
          => /\ pc' = "ex_catch"
             /\ lastError'.kind = "missing"
             /\ firmware' = firmware
    /\ (pc = "ex_catch" /\ Steps) => pc' = "exited" /\ exitCode' = 1

\* C12 amended: after a failed unzip or a pattern without a match extractFirmwareFiles
\* fails with an error and no partial result, and the run aborts without waiting for
\* or copying to a device; the removal of the scratch directory has run before the
\* error reaches the caller: the directory is gone whenever the original error is the
\* one raised, and it remains only when the removal failed, whose error is raised
\* instead
C12_CleanupAttempted ==
    /\ []C12_AbortedState
    /\ [][C12_FailureThrown]_vars

\* an archive without the right firmware: the error reached main, scratch removed
C12_Witness ==
    /\ pc = "exited"
    /\ raised.kind = "missing"
    /\ FileNames(extracted) = <<LeftUf2, ReadmeTxt>>
    /\ scratch = "removed"

\* C13 as stated: after a failed attempt that is not the last, the backoff before the
\* retry is 1 second, the same for every attempt number
C13_AsStated ==
    lastDelay.kind = "backoff" => retries \in 1..4 /\ lastDelay.ms = 1000

\* C20 as stated: a call of animateProgressBar sleeps `steps` times, durationMs in all
C20_AsStated ==
    lastDelay.kind # "none"
       => /\ lastDelay.sleeps = lastDelay.steps
          /\ lastDelay.ms = lastDelay.durationMs

\* C14, part 1: a successful copy leaves on the volume a file named like the source,
\* with the contents of the source, and changes no other file of the volume
C14_CopyWrites ==
    (pc = "cp_copy" /\ pc' = "cp_restart")
       => \E i \in 1..Len(extracted) :
             LET src == extracted[i]
             IN  /\ firmware[side] = TempDir \o <<src.name>>
                 /\ DOMAIN mount' = (DOMAIN mount) \cup {src.name}
                 /\ mount'[src.name] = src.bytes
                 /\ \A n \in (DOMAIN mount) \ {src.name} : mount'[n] = mount[n]

\* C14, part 2: nothing else writes to the volume
C14_OnlyCopyWrites ==
    mount' # mount => pc = "cp_copy" /\ pc' = "cp_restart" /\ CopyOk(vol)

\* C14: a successful copy attempt writes mount/basename(source), overwriting a file of
\* that name, with contents equal to the source's (a zero-length source included),
\* and changes no other file of the mount
C14_CopyOverwrites == [][C14_CopyWrites /\ C14_OnlyCopyWrites]_vars

\* a zero-length right firmware replaced the two bytes of an earlier one, after the
\* left firmware replaced its earlier one
C14_Witness ==
    /\ pc = "cp_restart"
    /\ side = "right"
    /\ mount = (InfoTxt :> <<8>>) @@ (LeftUf2 :> <<1, 2>>) @@ (RightUf2 :> << >>)

\* the positions at which the thread of control awaits a filesystem operation
IOPcs == {"getZipFiles", "ex_ensureDir", "ex_unzip", "ex_find", "ex_catch",
          "rdy_access", "rdy_readdir", "rdy_waccess", "cp_access", "cp_copy", "unlink"}

\* the filesystem operations in flight
InFlight == statPending + (IF pc \in IOPcs THEN 1 ELSE 0)

RECURSIVE CountZip(_)
CountZip(files) ==
    IF files = << >> THEN 0
    ELSE (IF Len(Head(files).name) >= 4
             /\ SubSeq(Head(files).name, Len(Head(files).name) - 3, Len(Head(files).name))
                   = <<".", "z", "i", "p">>
          THEN 1 ELSE 0) + CountZip(Tail(files))

\* C15 as stated: at every point of a run at most one I/O operation is in flight
C15_AsStated == InFlight <= 1

\* C15 amended: from the selection prompt on at most one filesystem operation is in
\* flight at any point; only getZipFiles has more: it calls fs.stat for every '.zip'
\* entry at once, so up to as many operations as there are candidates are in flight
\* together, until all have completed or, after one of them failed, the process exits
C15_OneInFlightAfterListing ==
    /\ pc \notin {"gz_stat", "main_checkZip", "exited"} => statPending = 0 /\ InFlight <= 1
    /\ (pc = "main_checkZip" /\ zipFiles # << >>) => statPending = 0
    /\ statPending <= CountZip(dir)
    /\ InFlight <= CountZip(dir) \/ InFlight <= 1

\* two stats are in flight together
C15_Witness ==
    /\ pc = "gz_stat"
    /\ statPending = 2
    /\ InFlight = 2

IsZipName(n) ==
    /\ Len(n) >= 4
    /\ n[Len(n) - 3] = "." /\ n[Len(n) - 2] = "z" /\ n[Len(n) - 1] = "i" /\ n[Len(n)] = "p"

Entries(files) == {files[i] : i \in 1..Len(files)}

\* C16: getZipFiles returns exactly the directory entries whose name ends in '.zip',
\* each once, ordered by last-modified time, newest first
C16_ZipNewestFirst ==
    (pc = "main_checkZip" /\ lastError = NoError)
       => /\ dirReadable
          /\ Entries(zipFiles) = {f \in Entries(dir) : IsZipName(f.name)}
          /\ Len(zipFiles) = Cardinality(Entries(zipFiles))
          /\ \A i \in 1..(Len(zipFiles) - 1) : zipFiles[i].mtime >= zipFiles[i + 1].mtime

\* a listing with an older archive before a newer one and an entry that is no archive
C16_Witness ==
    /\ pc = "main_checkZip"
    /\ lastError = NoError
    /\ Len(dir) = 3
    /\ Len(zipFiles) = 2
    /\ zipFiles[1].mtime > zipFiles[2].mtime
    /\ \E i, j \in 1..3 : i < j /\ dir[i] = zipFiles[2] /\ dir[j] = zipFiles[1]

CopyPcs == {"cp_enter", "cp_loop", "cp_backoff"} \cup AttemptPcs

\* the file of the volume named like the source of this pass holds the source's bytes
Copied ==
    /\ Basename(firmware[side]) \in DOMAIN mount
    /\ \E i \in 1..Len(extracted) :
          /\ extracted[i].name = Basename(firmware[side])
          /\ mount[Basename(firmware[side])] = extracted[i].bytes

\* C17, part 1: a call ends either by returning after an attempt whose check and
\* copy succeeded, or by raising from the catch of its 5th attempt
C17_Ends ==
    (pc \in CopyPcs /\ pc' \notin CopyPcs)
       => \/ /\ pc = "cp_restart"
             /\ accessOk /\ Copied
             /\ lastError = NoError \/ lastError.attempt < attempts[side]
             /\ copyResult'[side] = "success"
             /\ pc' \in {"wait_enter", "complete"}
             /\ exitCode' = -1 /\ raised' = NoError
             /\ attempts[side] \in 1..maxRetries
          \/ /\ pc = "cp_catch"
             /\ copyResult'[side] = "exhausted"
             /\ raised' # NoError /\ exitCode' = 1
             /\ pc' = "exited"
             /\ attempts[side] = maxRetries

\* C17, part 2: the loop test is never reached with the budget used up, and the
\* code after a successful copy is reached only with both operations done
C17_InLoop ==
    /\ pc = "cp_loop" => retries < maxRetries
    /\ pc = "cp_restart" => accessOk /\ Copied
    /\ pc = "complete" => BothCopied
    /\ side = "right" => copyResult["left"] = "success"

\* C17: copyFirmwareToKeyboard returns normally only after an attempt in which the
\* writability check and the copy both succeeded; it never leaves its loop through
\* the loop test; every call ends with a successful copy or a raised error, within
\* 5 attempts
C17_ReturnsOnlyAfterSuccess == []C17_InLoop /\ [][C17_Ends]_vars

\* the right copy returned after four failed attempts and a successful fifth
C17_Witness ==
    /\ pc = "complete"
    /\ attempts["right"] = 5
    /\ copyResult["right"] = "success"
    /\ lastError.attempt = 4

\* C18, part 1: a call starts with no failure counted, whatever the call before it
\* counted, and during an attempt the failures counted are those of this call
C18_FreshCounter ==
    /\ (pc = "cp_enter" /\ Steps) => retries' = 0 /\ attempts'[side] = 0
    /\ (pc = "cp_loop" /\ Steps /\ side = "right" /\ attempts["right"] < maxRetries)
          => pc' = "cp_access"

\* C18, part 2: the budget left to the right copy does not depend on the left one,
\* and a run makes at most 10 attempts
C18_Budget ==
    /\ (pc \in AttemptPcs /\ side = "right")
          => maxRetries - retries = maxRetries + 1 - attempts["right"]
    /\ copyResult["right"] = "exhausted" => attempts["right"] = maxRetries
    /\ attempts["left"] + attempts["right"] <= 2 * maxRetries
    /\ attempts["right"] > 0 => attempts["left"] \in 1..maxRetries

\* C18: the attempt counter is local to a call: failed attempts of the left copy do
\* not reduce the budget of the right copy, which always has 5 attempts, and a run
\* makes at most 10 copy attempts
C18_LocalCounter == []C18_Budget /\ [][C18_FreshCounter]_vars

\* the left copy needed all 5 attempts and the right copy then failed 5 times
C18_Witness ==
    /\ attempts["left"] = 5
    /\ attempts["right"] = 5
    /\ copyResult["left"] = "success"
    /\ copyResult["right"] = "exhausted"

\* extractFirmwareFiles returned the two firmware paths
ExtractReturned == \A s \in Sides : firmware[s] # NoFile

\* C19, part 1: after the return no step removes the scratch directory or its files
C19_Kept ==
    ExtractReturned => /\ scratch' = "exists"
                       /\ extracted' = extracted
                       /\ ExtractReturned'

\* C19, part 2: the scratch directory exists from the return to the end of the run
C19_Exists ==
    /\ ExtractReturned => scratch = "exists"
    /\ (pc \in CopyPcs \cup WaitPcs \cup {"wait_enter", "complete", "prompt_delete", "unlink"})
          => ExtractReturned
    /\ (pc = "exited" /\ \E s \in Sides : copyResult[s] # "none") => ExtractReturned

\* C19: once extractFirmwareFiles has returned successfully the scratch directory is
\* never removed: it exists at the end of the run, after full success as well as
\* after a copy has exhausted its retries
C19_ScratchNeverRemoved == []C19_Exists /\ [][C19_Kept]_vars

\* a run ended after the right copy exhausted its retries, the directory in place
C19_Witness ==
    /\ pc = "exited"
    /\ copyResult["right"] = "exhausted"
    /\ scratch = "exists"
    /\ ExtractReturned

====
